---- MODULE Spec2Model ----
(***************************************************************************)
(* tagstash: many-to-many value/tag associations with a best-match lookup. *)
(* The matching engine (TagStash) merges a per-tag cache (cache, backed by *)
(* the forget blob cache and the keyval record codec) with a persistent    *)
(* storage (Storage interface).                                            *)
(*                                                                         *)
(* Every operation that talks to an external collaborator yields a SET of  *)
(* outcomes: the storage may fail a call, the blob cache may refuse        *)
(* admission and may evict other keys while it allocates room for a write. *)
(***************************************************************************)
EXTENDS Integers, Sequences, FiniteSets, TLC

\* Universe of the checked runs.
Values == {"u1", "u2"}
Tags == {"foo", "bar"}

\* Longest tag list handed to Set, Get or GetAll.
MaxTags == 2

\* Number of engine calls in a run.
MaxCalls == 2

\* Error values.
nil == "nil"
errForgedError == "forged"
ErrDamagedCacheData == "damaged cache data"
ErrFailedToCacheEntry == "failed to cache entry"
ErrSyntax == "strconv.Atoi: invalid syntax"
\* The error of the blob cache's writer when it cannot take the data.
errWrite == "write failed"
ErrNotSupported == "not supported"

\* A tag list: Set(value, tags...), Get(tags...), GetAll(tags...).
TagLists == UNION {[1..n -> Tags] : n \in 0..MaxTags}

Entry(v, t, i) ==
    [Value |-> v, Tag |-> t, TagIndex |-> i,
     requestTagMatch |-> 0, requestIndexDelta |-> 0]

(***************************************************************************)
(* Record codec: strconv.Itoa / strconv.Atoi on the position token.        *)
(***************************************************************************)
Digits == <<"0", "1", "2", "3", "4", "5">>

Itoa(i) == IF i < 0 THEN "-" \o Digits[1 - i] ELSE Digits[i + 1]

Atoi(s) ==
    IF \E i \in 1..Len(Digits) : Digits[i] = s
    THEN [val |-> (CHOOSE i \in 1..Len(Digits) : Digits[i] = s) - 1, err |-> nil]
    ELSE IF \E i \in 1..Len(Digits) : "-" \o Digits[i] = s
    THEN [val |-> 1 - (CHOOSE i \in 1..Len(Digits) : "-" \o Digits[i] = s), err |-> nil]
    ELSE [val |-> 0, err |-> ErrSyntax]

RECURSIVE readAllFrom(_, _, _, _)
readAllFrom(raw, tag, k, entries) ==
    IF k > Len(raw)
    THEN [entries |-> entries, err |-> nil]
    ELSE LET e == raw[k]
             a == Atoi(e.Val)
         IN  IF a.err # nil
             THEN [entries |-> <<>>, err |-> a.err]
             ELSE IF Len(e.Key) # 1
             THEN [entries |-> <<>>, err |-> ErrDamagedCacheData]
             ELSE readAllFrom(raw, tag, k + 1,
                              Append(entries, Entry(e.Key[1], tag, a.val)))

readAll(raw, tag) == readAllFrom(raw, tag, 1, <<>>)

\* writeAll writing the place of each entry in the list for its TagIndex.
writeAllListPosition(e) ==
    [k \in 1..Len(e) |-> [Key |-> <<e[k].Value>>, Val |-> Itoa(k - 1)]]

writeAll(e) ==
    [k \in 1..Len(e) |-> [Key |-> <<e[k].Value>>, Val |-> Itoa(e[k].TagIndex)]]

(***************************************************************************)
(* Blob cache (forget): a partial map from key to stored bytes.            *)
(***************************************************************************)
forgetSet(c, key, data) ==
    [x \in (DOMAIN c) \cup {key} |-> IF x = key THEN data ELSE c[x]]

forgetDelete(c, keys) == [x \in (DOMAIN c) \ keys |-> c[x]]

(***************************************************************************)
(* Tag cache.                                                              *)
(***************************************************************************)
\* withTagEntries, first half: under the lock, read and decode the tag's list
\* (empty when the tag is not cached).
withTagEntriesRead(c, tag) ==
    IF tag \in DOMAIN c THEN readAll(c[tag], tag) ELSE [entries |-> <<>>, err |-> nil]

\* withTagEntries, second half: write the list back and release the lock.
withTagEntriesWrite(c, tag, entries) ==
    \* forget.Set refuses admission; the previous item of the key is kept or
    \* dropped by the blob cache
    {[forget |-> c, err |-> ErrFailedToCacheEntry, evicted |-> {}],
     [forget |-> forgetDelete(c, {tag}), err |-> ErrFailedToCacheEntry, evicted |-> {}]}
    \cup
    \* forget.Set hands out a writer and writeAll fails on it: the item of the
    \* key is discarded or holds the records written before the failure
    {[forget |-> forgetDelete(c, {tag}), err |-> errWrite, evicted |-> {}]}
    \cup
    {[forget |-> forgetSet(c, tag, SubSeq(writeAll(entries), 1, n)),
      err |-> errWrite, evicted |-> {}] : n \in 0..(Len(entries) - 1)}
    \cup
    \* the write is admitted; making room may evict other keys
    {[forget |-> forgetDelete(forgetSet(c, tag, writeAll(entries)), ev),
      err |-> nil, evicted |-> ev] :
        ev \in SUBSET ((DOMAIN c) \ {tag})}

\* Takes a cached list that does not decode for a tag that is not cached.
cacheGetTagSkipDamaged(c, tag, entries) ==
    IF tag \notin DOMAIN c \/ readAll(c[tag], tag).err # nil
    THEN [entries |-> entries, err |-> nil]
    ELSE [entries |-> entries \o readAll(c[tag], tag).entries, err |-> nil]

\* One iteration of cache.Get: the entries of one tag appended to those read
\* so far; a tag that is not cached contributes nothing.
cacheGetTag(c, tag, entries) ==
    IF tag \notin DOMAIN c
    THEN [entries |-> entries, err |-> nil]
    ELSE LET r == readAll(c[tag], tag)
         IN  IF r.err # nil
             THEN [entries |-> <<>>, err |-> r.err]
             ELSE [entries |-> entries \o r.entries, err |-> nil]

RECURSIVE cacheGetFrom(_, _, _, _)
cacheGetFrom(c, tags, k, entries) ==
    IF k > Len(tags)
    THEN [entries |-> entries, err |-> nil]
    ELSE LET r == cacheGetTag(c, tags[k], entries)
         IN  IF r.err # nil THEN r ELSE cacheGetFrom(c, tags, k + 1, r.entries)

cacheGet(c, tags) == cacheGetFrom(c, tags, 1, <<>>)

\* Leaves the position of an entry that exists as it was.
cacheSetOpKeepIndex(entries, e) ==
    IF \E k \in 1..Len(entries) : entries[k].Value = e.Value
    THEN entries
    ELSE Append(entries, e)

\* Appends the entry even when the list holds the value.
cacheSetOpAppend(entries, e) == Append(entries, e)

\* The op of cache.Set: replace by value, or append.
cacheSetOp(entries, e) ==
    IF \E k \in 1..Len(entries) : entries[k].Value = e.Value
    THEN LET k == CHOOSE k \in 1..Len(entries) :
                    /\ entries[k].Value = e.Value
                    /\ \A j \in 1..(k - 1) : entries[j].Value # e.Value
         IN  [entries EXCEPT ![k].TagIndex = e.TagIndex]
    ELSE Append(entries, e)


\* Drops the last entry of the list when the value has none.
cacheRemoveOpDropLast(entries, e) ==
    IF \E k \in 1..Len(entries) : entries[k].Value = e.Value
    THEN SelectSeq(entries, LAMBDA x : x.Value # e.Value)
    ELSE SubSeq(entries, 1, Len(entries) - 1)

\* The op of cache.Remove: drop the first entry of the value.
cacheRemoveOp(entries, e) ==
    IF \E k \in 1..Len(entries) : entries[k].Value = e.Value
    THEN LET k == CHOOSE k \in 1..Len(entries) :
                    /\ entries[k].Value = e.Value
                    /\ \A j \in 1..(k - 1) : entries[j].Value # e.Value
         IN  SubSeq(entries, 1, k - 1) \o SubSeq(entries, k + 1, Len(entries))
    ELSE entries

\* Goes on with an empty list when the cached list does not decode.
withTagEntriesOverwrite(c, tag, op, e) ==
    LET r == withTagEntriesRead(c, tag)
        entries == IF r.err # nil THEN <<>> ELSE r.entries
    IN  withTagEntriesWrite(c, tag,
                            IF op = "Remove" THEN cacheRemoveOp(entries, e)
                            ELSE cacheSetOp(entries, e))

\* Outcomes of the read-modify-write of one tag's list under the cache lock;
\* op names the closure the caller passes: that of cache.Set or of cache.Remove.
withTagEntries(c, tag, op, e) ==
    LET r == withTagEntriesRead(c, tag)
    IN  IF r.err # nil
        THEN {[forget |-> c, err |-> r.err, evicted |-> {}]}
        ELSE withTagEntriesWrite(c, tag,
                                 IF op = "Remove" THEN cacheRemoveOp(r.entries, e)
                                 ELSE cacheSetOp(r.entries, e))

cacheSet(c, e) == withTagEntries(c, e.Tag, "Set", e)

cacheRemove(c, e) == withTagEntries(c, e.Tag, "Remove", e)

cacheDelete(c, tag) == {[forget |-> forgetDelete(c, {tag}), err |-> nil, evicted |-> {}]}

(***************************************************************************)
(* Persistent storage (Storage interface).  Rows keep insertion order.     *)
(***************************************************************************)
Row(e) == [Value |-> e.Value, Tag |-> e.Tag, TagIndex |-> e.TagIndex]

\* Goes to the data base, and may fail there, also for an empty list of tags.
storageGetAlwaysQueries(s, tags) ==
    LET match(r) == \E k \in 1..Len(tags) : tags[k] = r.Tag
    IN  {[entries |-> <<>>, err |-> errForgedError],
         [entries |-> [k \in 1..Len(SelectSeq(s, match)) |->
                         Entry(SelectSeq(s, match)[k].Value, SelectSeq(s, match)[k].Tag,
                               SelectSeq(s, match)[k].TagIndex)],
          err |-> nil]}

storageGet(s, tags) ==
    IF Len(tags) = 0
    THEN {[entries |-> <<>>, err |-> nil]}
    ELSE LET match(r) == \E k \in 1..Len(tags) : tags[k] = r.Tag
             toEntry(r) == Entry(r.Value, r.Tag, r.TagIndex)
         IN  {[entries |-> <<>>, err |-> errForgedError],
              [entries |-> [k \in 1..Len(SelectSeq(s, match)) |->
                              toEntry(SelectSeq(s, match)[k])],
               err |-> nil]}

\* Inserts a new row even when the pair has one.
storageSetAppend(s, e) ==
    {[storage |-> s, err |-> errForgedError],
     [storage |-> Append(s, Row(e)), err |-> nil]}

\* Reports the failure after the row is written.
storageSetWriteThenFail(s, e) ==
    LET w == IF \E k \in 1..Len(s) : s[k].Tag = e.Tag /\ s[k].Value = e.Value
             THEN [k \in 1..Len(s) |->
                     IF s[k].Tag = e.Tag /\ s[k].Value = e.Value
                     THEN [s[k] EXCEPT !.TagIndex = e.TagIndex] ELSE s[k]]
             ELSE Append(s, Row(e))
    IN  {[storage |-> w, err |-> errForgedError], [storage |-> w, err |-> nil]}

storageSet(s, e) ==
    {[storage |-> s, err |-> errForgedError],
     [storage |->
        IF \E k \in 1..Len(s) : s[k].Tag = e.Tag /\ s[k].Value = e.Value
        THEN [k \in 1..Len(s) |->
                IF s[k].Tag = e.Tag /\ s[k].Value = e.Value
                THEN [s[k] EXCEPT !.TagIndex = e.TagIndex] ELSE s[k]]
        ELSE Append(s, Row(e)),
      err |-> nil]}

storageRemove(s, e) ==
    LET keep(r) == ~(r.Tag = e.Tag /\ r.Value = e.Value)
    IN  {[storage |-> s, err |-> errForgedError],
         [storage |-> SelectSeq(s, keep), err |-> nil]}

\* Deletes the rows of every tag.
storageDeleteAll(s, tag) ==
    {[storage |-> s, err |-> errForgedError],
     [storage |-> <<>>, err |-> nil]}

storageDelete(s, tag) ==
    LET keep(r) == r.Tag # tag
    IN  {[storage |-> s, err |-> errForgedError],
         [storage |-> SelectSeq(s, keep), err |-> nil]}

\* TagLookup.GetTags of a storage that implements it: the tags of the rows of
\* the value.
storageGetTags(s, value) ==
    LET rows == SelectSeq(s, LAMBDA r : r.Value = value)
    IN  {[tags |-> <<>>, err |-> errForgedError],
         [tags |-> [k \in 1..Len(rows) |-> rows[k].Tag], err |-> nil]}

(***************************************************************************)
(* Matching engine.                                                        *)
(***************************************************************************)
Abs(d) == IF d < 0 THEN 0 - d ELSE d

\* Ranks the entries with fewer matching tags first.
LessFewerFirst(left, right) ==
    IF left.requestTagMatch = right.requestTagMatch
    THEN left.requestIndexDelta < right.requestIndexDelta
    ELSE left.requestTagMatch < right.requestTagMatch

Less(left, right) ==
    IF left.requestTagMatch = right.requestTagMatch
    THEN left.requestIndexDelta < right.requestIndexDelta
    ELSE left.requestTagMatch > right.requestTagMatch

Swap(s, i, j) == [s EXCEPT ![i] = s[j], ![j] = s[i]]

\* sort.Sort on a short slice (at most twelve elements): insertion sort driven
\* by Less and Swap.
RECURSIVE insertDown(_, _)
insertDown(s, j) ==
    IF j > 1 /\ Less(s[j], s[j - 1])
    THEN insertDown(Swap(s, j, j - 1), j - 1)
    ELSE s

RECURSIVE insertionSort(_, _)
insertionSort(s, i) ==
    IF i > Len(s) THEN s ELSE insertionSort(insertDown(s, i), i + 1)

\* The pass sort.Sort makes before the insertion sort on a slice of seven to
\* twelve elements: a Shell sort pass with gap 6.
RECURSIVE shellPass(_, _)
shellPass(s, i) ==
    IF i > Len(s) THEN s
    ELSE shellPass(IF Less(s[i], s[i - 6]) THEN Swap(s, i, i - 6) ELSE s, i + 1)

sortEntries(s) == insertionSort(shellPass(s, 7), 2)

RECURSIVE setRequestIndexFrom(_, _, _, _)
setRequestIndexFrom(tags, e, k, notFound) ==
    IF k > Len(tags)
    THEN [entries |-> e, notFound |-> notFound]
    ELSE LET t == tags[k]
             i == k - 1
             found == \E j \in 1..Len(e) : e[j].Tag = t
             marked == [j \in 1..Len(e) |->
                          IF e[j].Tag = t
                          THEN [e[j] EXCEPT !.requestIndexDelta = Abs(i - e[j].TagIndex)]
                          ELSE e[j]]
         IN  setRequestIndexFrom(tags, marked, k + 1,
                                 IF found THEN notFound ELSE Append(notFound, t))

setRequestIndex(tags, e) == setRequestIndexFrom(tags, e, 1, <<>>)

RECURSIVE uniqueValuesFrom(_, _, _)
uniqueValuesFrom(e, k, u) ==
    IF k > Len(e)
    THEN u
    ELSE IF \E j \in 1..Len(u) : u[j].Value = e[k].Value
    THEN LET j == CHOOSE j \in 1..Len(u) : u[j].Value = e[k].Value
         IN  uniqueValuesFrom(e, k + 1,
                 [u EXCEPT ![j].requestTagMatch = @ + 1,
                           ![j].requestIndexDelta = @ + e[k].requestIndexDelta])
    ELSE uniqueValuesFrom(e, k + 1,
                          Append(u, [e[k] EXCEPT !.requestTagMatch = 1]))

\* Keeps every occurrence of a value.
uniqueValuesKeepAll(e) == [k \in 1..Len(e) |-> [e[k] EXCEPT !.requestTagMatch = 1]]

uniqueValues(e) == uniqueValuesFrom(e, 1, <<>>)

mapEntries(e) == [k \in 1..Len(e) |-> e[k].Value]

\* The warm-up loop of getAll: cache.Set for every entry fetched from storage.
RECURSIVE warmUp(_, _, _, _)
warmUp(c, stored, k, ev) ==
    IF k > Len(stored)
    THEN {[forget |-> c, err |-> nil, evicted |-> ev, at |-> 0]}
    ELSE UNION {IF co.err # nil
                THEN {[forget |-> co.forget, err |-> co.err, evicted |-> ev, at |-> k]}
                ELSE warmUp(co.forget, stored, k + 1, ev \cup co.evicted) :
                  co \in cacheSet(c, stored[k])}

\* The tail of getAll: score both sources, merge, deduplicate and sort.
ranked(tags, cached, stored) ==
    sortEntries(uniqueValues(setRequestIndex(tags, cached).entries \o
                             setRequestIndex(tags, stored).entries))

\* Returns the merged result when a warm-up write fails.
getAllIgnoreWarmUpError(c, s, tags) ==
    LET cached == cacheGet(c, tags)
    IN  IF cached.err # nil
        THEN {[forget |-> c, storage |-> s, entries |-> <<>>, err |-> cached.err,
               evicted |-> {}, failed |-> "cache.Get", at |-> 0]}
        ELSE LET first == setRequestIndex(tags, cached.entries)
             IN  UNION {IF sg.err # nil
                        THEN {[forget |-> c, storage |-> s, entries |-> <<>>,
                               err |-> sg.err, evicted |-> {},
                               failed |-> "storage.Get", at |-> 0]}
                        ELSE {[forget |-> w.forget, storage |-> s,
                               entries |-> ranked(tags, cached.entries, sg.entries),
                               err |-> nil, evicted |-> w.evicted,
                               failed |-> IF w.err # nil THEN "cache.Set" ELSE "",
                               at |-> w.at] :
                                 w \in warmUp(c, sg.entries, 1, {})} :
                          sg \in storageGet(s, first.notFound)}

\* Takes a tag with a cached item for found, also when its list is empty.
getAllTrustEmpty(c, s, tags) ==
    LET cached == cacheGet(c, tags)
    IN  IF cached.err # nil
        THEN {[forget |-> c, storage |-> s, entries |-> <<>>, err |-> cached.err,
               evicted |-> {}, failed |-> "cache.Get", at |-> 0]}
        ELSE LET first == setRequestIndex(tags, cached.entries)
                 notFound == SelectSeq(first.notFound, LAMBDA t : t \notin DOMAIN c)
             IN  UNION {IF sg.err # nil
                        THEN {[forget |-> c, storage |-> s, entries |-> <<>>,
                               err |-> sg.err, evicted |-> {},
                               failed |-> "storage.Get", at |-> 0]}
                        ELSE {[forget |-> w.forget, storage |-> s,
                               entries |->
                                 IF w.err # nil THEN <<>>
                                 ELSE ranked(tags, cached.entries, sg.entries),
                               err |-> w.err, evicted |-> w.evicted,
                               failed |-> IF w.err # nil THEN "cache.Set" ELSE "",
                               at |-> w.at] :
                                 w \in warmUp(c, sg.entries, 1, {})} :
                          sg \in storageGet(s, notFound)}

\* Deletes the tag of a failed warm-up write, its storage rows too.
getAllDeleteOnWarmUpError(c, s, tags) ==
    LET cached == cacheGet(c, tags)
    IN  IF cached.err # nil
        THEN {[forget |-> c, storage |-> s, entries |-> <<>>, err |-> cached.err,
               evicted |-> {}, failed |-> "cache.Get", at |-> 0]}
        ELSE LET first == setRequestIndex(tags, cached.entries)
             IN  UNION {IF sg.err # nil
                        THEN {[forget |-> c, storage |-> s, entries |-> <<>>,
                               err |-> sg.err, evicted |-> {},
                               failed |-> "storage.Get", at |-> 0]}
                        ELSE {[forget |-> w.forget,
                               storage |->
                                 IF w.err # nil
                                 THEN SelectSeq(s, LAMBDA r : r.Tag # sg.entries[w.at].Tag)
                                 ELSE s,
                               entries |->
                                 IF w.err # nil THEN <<>>
                                 ELSE ranked(tags, cached.entries, sg.entries),
                               err |-> w.err, evicted |-> w.evicted,
                               failed |-> IF w.err # nil THEN "cache.Set" ELSE "",
                               at |-> w.at] :
                                 w \in warmUp(c, sg.entries, 1, {})} :
                          sg \in storageGet(s, first.notFound)}

getAll(c, s, tags) ==
    LET cached == cacheGet(c, tags)
    IN  IF cached.err # nil
        THEN {[forget |-> c, storage |-> s, entries |-> <<>>, err |-> cached.err,
               evicted |-> {}, failed |-> "cache.Get", at |-> 0]}
        ELSE LET first == setRequestIndex(tags, cached.entries)
             IN  UNION {IF sg.err # nil
                        THEN {[forget |-> c, storage |-> s, entries |-> <<>>,
                               err |-> sg.err, evicted |-> {},
                               failed |-> "storage.Get", at |-> 0]}
                        ELSE {[forget |-> w.forget, storage |-> s,
                               entries |->
                                 IF w.err # nil THEN <<>>
                                 ELSE ranked(tags, cached.entries, sg.entries),
                               err |-> w.err, evicted |-> w.evicted,
                               failed |-> IF w.err # nil THEN "cache.Set" ELSE "",
                               at |-> w.at] :
                                 w \in warmUp(c, sg.entries, 1, {})} :
                          sg \in storageGet(s, first.notFound)}

\* Returns the value of the last entry instead of the first.
GetLast(c, s, tags) ==
    {[forget |-> o.forget, storage |-> o.storage, err |-> o.err, evicted |-> o.evicted,
      failed |-> o.failed, at |-> o.at, entries |-> o.entries,
      val |-> IF o.err # nil \/ Len(o.entries) = 0 THEN ""
              ELSE mapEntries(o.entries)[Len(o.entries)],
      vals |-> <<>>] : o \in getAll(c, s, tags)}

Get(c, s, tags) ==
    {[forget |-> o.forget, storage |-> o.storage, err |-> o.err, evicted |-> o.evicted,
      failed |-> o.failed, at |-> o.at, entries |-> o.entries,
      val |-> IF o.err # nil \/ Len(o.entries) = 0 THEN ""
              ELSE mapEntries(SubSeq(o.entries, 1, 1))[1],
      vals |-> <<>>] : o \in getAll(c, s, tags)}

GetAll(c, s, tags) ==
    {[forget |-> o.forget, storage |-> o.storage, err |-> o.err, evicted |-> o.evicted,
      failed |-> o.failed, at |-> o.at, entries |-> o.entries,
      val |-> "",
      vals |-> IF o.err # nil THEN <<>> ELSE mapEntries(o.entries)] :
        o \in getAll(c, s, tags)}

\* Asks the storage whether or not it implements TagLookup.
GetTagsIgnoreCapability(c, s, lookup, value) ==
    {[forget |-> c, storage |-> s, err |-> o.err, evicted |-> {},
      failed |-> IF o.err # nil THEN "storage.GetTags" ELSE "", at |-> 0,
      tags |-> o.tags] : o \in storageGetTags(s, value)}

\* lookup: the storage implements TagLookup.
GetTags(c, s, lookup, value) ==
    IF lookup
    THEN {[forget |-> c, storage |-> s, err |-> o.err, evicted |-> {},
           failed |-> IF o.err # nil THEN "storage.GetTags" ELSE "", at |-> 0,
           tags |-> o.tags] : o \in storageGetTags(s, value)}
    ELSE {[forget |-> c, storage |-> s, err |-> ErrNotSupported, evicted |-> {},
           failed |-> "", at |-> 0, tags |-> <<>>]}

RECURSIVE SetFrom(_, _, _, _, _, _)
SetFrom(c, s, value, tags, k, ev) ==
    IF k > Len(tags)
    THEN {[forget |-> c, storage |-> s, err |-> nil, evicted |-> ev,
           failed |-> "", at |-> 0]}
    ELSE LET e == Entry(value, tags[k], k - 1)
         IN  UNION {IF so.err # nil
                    THEN {[forget |-> c, storage |-> so.storage, err |-> so.err,
                           evicted |-> ev, failed |-> "storage.Set", at |-> k]}
                    ELSE UNION {IF co.err # nil
                                THEN {[forget |-> co.forget, storage |-> so.storage,
                                       err |-> co.err, evicted |-> ev,
                                       failed |-> "cache.Set", at |-> k]}
                                ELSE SetFrom(co.forget, so.storage, value, tags, k + 1,
                                             ev \cup co.evicted) :
                                  co \in cacheSet(c, e)} :
                      so \in storageSet(s, e)}

Set(c, s, value, tags) == SetFrom(c, s, value, tags, 1, {})

\* Removes from the storage first and from the cache second.
RemoveStorageFirst(c, s, value, tag) ==
    LET e == Entry(value, tag, 0)
    IN  UNION {IF so.err # nil
               THEN {[forget |-> c, storage |-> s, err |-> so.err,
                      evicted |-> {}, failed |-> "storage.Remove", at |-> 1]}
               ELSE {[forget |-> co.forget, storage |-> so.storage, err |-> co.err,
                      evicted |-> co.evicted,
                      failed |-> IF co.err # nil THEN "cache.Remove" ELSE "",
                      at |-> IF co.err # nil THEN 1 ELSE 0] :
                        co \in cacheRemove(c, e)} :
                 so \in storageRemove(s, e)}

Remove(c, s, value, tag) ==
    LET e == Entry(value, tag, 0)
    IN  UNION {IF co.err # nil
               THEN {[forget |-> co.forget, storage |-> s, err |-> co.err,
                      evicted |-> {}, failed |-> "cache.Remove", at |-> 1]}
               ELSE {[forget |-> co.forget, storage |-> so.storage, err |-> so.err,
                      evicted |-> co.evicted,
                      failed |-> IF so.err # nil THEN "storage.Remove" ELSE "",
                      at |-> IF so.err # nil THEN 1 ELSE 0] :
                        so \in storageRemove(s, e)} :
                 co \in cacheRemove(c, e)}

Delete(c, s, tag) ==
    UNION {IF co.err # nil
           THEN {[forget |-> co.forget, storage |-> s, err |-> co.err, evicted |-> {},
                  failed |-> "cache.Delete", at |-> 1]}
           ELSE {[forget |-> co.forget, storage |-> so.storage, err |-> so.err,
                  evicted |-> {},
                  failed |-> IF so.err # nil THEN "storage.Delete" ELSE "",
                  at |-> IF so.err # nil THEN 1 ELSE 0] :
                    so \in storageDelete(s, tag)} :
             co \in cacheDelete(c, tag)}

(***************************************************************************)
(* One caller at a time: every engine call runs to its return.             *)
(***************************************************************************)
VARIABLES forget, storage, last, calls, proc, mx, tagLookup

vars == <<forget, storage, last, calls, proc, mx, tagLookup>>

\* The callers that may run engine calls concurrently.
Callers == {1, 2}

\* A caller that is not inside an engine call.
Idle ==
    [pc |-> "idle", op |-> "", value |-> "", tags |-> <<>>, k |-> 0,
     read |-> <<>>, entries |-> <<>>, stored |-> <<>>, err |-> nil, vals |-> <<>>]

\* What the last completed call was and what it returned; failed names the
\* collaborator call that returned the error and at the position of the tag
\* (of the fetched entry, in a warm-up) that call was about.
Call(op, value, tags, o, val, vals, entries) ==
    [op |-> op, value |-> value, tags |-> tags, err |-> o.err, val |-> val, vals |-> vals,
     entries |-> entries, failed |-> o.failed, at |-> o.at]

\* Storage contents that may exist when the stash is created over them.
InitStorages ==
    {<<>>,
     <<Row(Entry("u1", "foo", 0)), Row(Entry("u2", "foo", 1))>>,
     <<Row(Entry("u1", "foo", 0)), Row(Entry("u1", "bar", 1)),
       Row(Entry("u2", "bar", 0))>>}

Init ==
    /\ forget = [x \in {} |-> <<>>]
    /\ storage \in InitStorages
    /\ last = [op |-> "New", value |-> "", tags |-> <<>>, err |-> nil,
               val |-> "", vals |-> <<>>, entries |-> <<>>, failed |-> "", at |-> 0]
    /\ calls = 0
    /\ proc = [p \in Callers |-> Idle]
    /\ mx = 0
    /\ tagLookup = TRUE

Return(o, l) ==
    /\ calls' = calls + 1
    /\ forget' = o.forget
    /\ storage' = o.storage
    /\ last' = l
    /\ UNCHANGED <<proc, mx, tagLookup>>

DoSet ==
    /\ calls < MaxCalls
    /\ \E value \in Values, tags \in TagLists :
        \E o \in Set(forget, storage, value, tags) :
            Return(o, Call("Set", value, tags, o, "", <<>>, <<>>))

DoRemove ==
    /\ calls < MaxCalls
    /\ \E value \in Values, tag \in Tags :
        \E o \in Remove(forget, storage, value, tag) :
            Return(o, Call("Remove", value, <<tag>>, o, "", <<>>, <<>>))

DoDelete ==
    /\ calls < MaxCalls
    /\ \E tag \in Tags :
        \E o \in Delete(forget, storage, tag) :
            Return(o, Call("Delete", "", <<tag>>, o, "", <<>>, <<>>))

DoGet ==
    /\ calls < MaxCalls
    /\ \E tags \in TagLists :
        \E o \in Get(forget, storage, tags) :
            Return(o, Call("Get", "", tags, o, o.val, o.vals, o.entries))

DoGetAll ==
    /\ calls < MaxCalls
    /\ \E tags \in TagLists :
        \E o \in GetAll(forget, storage, tags) :
            Return(o, Call("GetAll", "", tags, o, o.val, o.vals, o.entries))

Next == DoSet \/ DoRemove \/ DoDelete \/ DoGet \/ DoGetAll

Spec == Init /\ [][Next]_vars

TypeOK ==
    /\ DOMAIN forget \subseteq Tags
    /\ \A k \in 1..Len(storage) : storage[k].Value \in Values /\ storage[k].Tag \in Tags

(***************************************************************************)
(* Concurrent callers: an engine call is a sequence of steps, one per call *)
(* into the storage or the blob cache.  cache.Set and cache.Remove hold    *)
(* the cache lock from their read to their write; cache.Get and            *)
(* cache.Delete do not take it.                                            *)
(***************************************************************************)
Done(q, err, vals) == [Idle EXCEPT !.pc = "done", !.op = q.op, !.value = q.value,
                                   !.tags = q.tags, !.err = err, !.vals = vals]

\* The entry the caller's current cache or storage call is about.
CurEntry(q) ==
    IF q.op = "Set" THEN Entry(q.value, q.tags[q.k], q.k - 1)
    ELSE IF q.op = "Remove" THEN Entry(q.value, q.tags[1], 0)
    ELSE q.stored[q.k]

Start(p) ==
    /\ proc[p].pc \in {"idle", "done"}
    /\ calls < MaxCalls
    /\ calls' = calls + 1
    /\ \/ \E value \in Values, tags \in TagLists :
            LET q == [Idle EXCEPT !.op = "Set", !.value = value, !.tags = tags, !.k = 1]
            IN  proc' = [proc EXCEPT ![p] =
                           IF Len(tags) = 0 THEN Done(q, nil, <<>>)
                           ELSE [q EXCEPT !.pc = "SetStorage"]]
       \/ \E value \in Values, tag \in Tags :
            proc' = [proc EXCEPT ![p] =
                       [Idle EXCEPT !.pc = "CacheRead", !.op = "Remove",
                                    !.value = value, !.tags = <<tag>>, !.k = 1]]
       \/ \E tag \in Tags :
            proc' = [proc EXCEPT ![p] =
                       [Idle EXCEPT !.pc = "DeleteCache", !.op = "Delete",
                                    !.tags = <<tag>>, !.k = 1]]
       \/ \E tags \in TagLists :
            proc' = [proc EXCEPT ![p] =
                       [Idle EXCEPT !.pc = IF Len(tags) = 0 THEN "GetStorage" ELSE "GetCache",
                                    !.op = "GetAll", !.tags = tags, !.k = 1]]
    /\ UNCHANGED <<forget, storage, last, mx, tagLookup>>

\* TagStash.Set: t.storage.Set(e)
SetStorage(p) ==
    /\ proc[p].pc = "SetStorage"
    /\ \E so \in storageSet(storage, CurEntry(proc[p])) :
          /\ storage' = so.storage
          /\ proc' = [proc EXCEPT ![p] =
                        IF so.err # nil THEN Done(@, so.err, <<>>)
                        ELSE [@ EXCEPT !.pc = "CacheRead"]]
    /\ UNCHANGED <<forget, last, calls, mx, tagLookup>>

\* Reads the tag's list without waiting for the lock.
CacheReadNoLock(p) ==
    /\ proc[p].pc = "CacheRead"
    /\ LET r == withTagEntriesRead(forget, CurEntry(proc[p]).Tag)
       IN  IF r.err # nil
           THEN /\ proc' = [proc EXCEPT ![p] = Done(@, r.err, <<>>)]
                /\ mx' = 0
           ELSE /\ proc' = [proc EXCEPT ![p].pc = "CacheWrite", ![p].read = r.entries]
                /\ mx' = p
    /\ UNCHANGED <<forget, storage, last, calls, tagLookup>>

\* Returns the decode error without releasing the lock.
CacheReadKeepLockOnError(p) ==
    /\ proc[p].pc = "CacheRead"
    /\ mx = 0
    /\ LET r == withTagEntriesRead(forget, CurEntry(proc[p]).Tag)
       IN  IF r.err # nil
           THEN /\ proc' = [proc EXCEPT ![p] = Done(@, r.err, <<>>)]
                /\ mx' = p
           ELSE /\ proc' = [proc EXCEPT ![p].pc = "CacheWrite", ![p].read = r.entries]
                /\ mx' = p
    /\ UNCHANGED <<forget, storage, last, calls, tagLookup>>

\* cache.withTagEntries: take the lock, read and decode the tag's list.
CacheRead(p) ==
    /\ proc[p].pc = "CacheRead"
    /\ mx = 0
    /\ LET r == withTagEntriesRead(forget, CurEntry(proc[p]).Tag)
       IN  IF r.err # nil
           THEN /\ proc' = [proc EXCEPT ![p] = Done(@, r.err, <<>>)]
                /\ mx' = 0
           ELSE /\ proc' = [proc EXCEPT ![p].pc = "CacheWrite", ![p].read = r.entries]
                /\ mx' = p
    /\ UNCHANGED <<forget, storage, last, calls, tagLookup>>

\* Where the engine call goes on after a cache.Set or cache.Remove returned nil.
AfterCacheWrite(q) ==
    IF q.op = "Remove"
    THEN [q EXCEPT !.pc = "RemoveStorage", !.read = <<>>]
    ELSE IF q.op = "Set"
    THEN IF q.k < Len(q.tags)
         THEN [q EXCEPT !.pc = "SetStorage", !.k = q.k + 1, !.read = <<>>]
         ELSE Done(q, nil, <<>>)
    ELSE IF q.k < Len(q.stored)
         THEN [q EXCEPT !.pc = "CacheRead", !.k = q.k + 1, !.read = <<>>]
         ELSE Done(q, nil, mapEntries(ranked(q.tags, q.entries, q.stored)))

\* cache.withTagEntries: apply the op, write the list back, release the lock;
\* then the engine call goes on.
CacheWrite(p) ==
    /\ proc[p].pc = "CacheWrite"
    /\ LET q == proc[p]
           e == CurEntry(q)
           entries == IF q.op = "Remove" THEN cacheRemoveOp(q.read, e)
                      ELSE cacheSetOp(q.read, e)
       IN  \E o \in withTagEntriesWrite(forget, e.Tag, entries) :
              /\ forget' = o.forget
              /\ proc' = [proc EXCEPT ![p] =
                   IF o.err # nil THEN Done(q, o.err, <<>>) ELSE AfterCacheWrite(q)]
    /\ mx' = 0
    /\ UNCHANGED <<storage, last, calls, tagLookup>>

\* TagStash.Remove: t.storage.Remove(e)
RemoveStorage(p) ==
    /\ proc[p].pc = "RemoveStorage"
    /\ \E so \in storageRemove(storage, CurEntry(proc[p])) :
          /\ storage' = so.storage
          /\ proc' = [proc EXCEPT ![p] = Done(@, so.err, <<>>)]
    /\ UNCHANGED <<forget, last, calls, mx, tagLookup>>

\* TagStash.Delete: t.cache.Delete(tag)
DeleteCache(p) ==
    /\ proc[p].pc = "DeleteCache"
    /\ \E co \in cacheDelete(forget, proc[p].tags[1]) :
          /\ forget' = co.forget
          /\ proc' = [proc EXCEPT ![p] =
                        IF co.err # nil THEN Done(@, co.err, <<>>)
                        ELSE [@ EXCEPT !.pc = "DeleteStorage"]]
    /\ UNCHANGED <<storage, last, calls, mx, tagLookup>>

\* TagStash.Delete: t.storage.Delete(tag)
DeleteStorage(p) ==
    /\ proc[p].pc = "DeleteStorage"
    /\ \E so \in storageDelete(storage, proc[p].tags[1]) :
          /\ storage' = so.storage
          /\ proc' = [proc EXCEPT ![p] = Done(@, so.err, <<>>)]
    /\ UNCHANGED <<forget, last, calls, mx, tagLookup>>

\* getAll: one iteration of t.cache.Get(tags)
GetCache(p) ==
    /\ proc[p].pc = "GetCache"
    /\ LET q == proc[p]
           r == cacheGetTag(forget, q.tags[q.k], q.entries)
       IN  proc' = [proc EXCEPT ![p] =
                      IF r.err # nil THEN Done(q, r.err, <<>>)
                      ELSE IF q.k < Len(q.tags)
                      THEN [q EXCEPT !.k = q.k + 1, !.entries = r.entries]
                      ELSE [q EXCEPT !.pc = "GetStorage", !.entries = r.entries]]
    /\ UNCHANGED <<forget, storage, last, calls, mx, tagLookup>>

\* Asks the storage for every query tag, found in the cache or not.
GetStorageAllTags(p) ==
    /\ proc[p].pc = "GetStorage"
    /\ LET q == proc[p]
       IN  \E sg \in storageGet(storage, q.tags) :
              proc' = [proc EXCEPT ![p] =
                         IF sg.err # nil THEN Done(q, sg.err, <<>>)
                         ELSE IF Len(sg.entries) = 0
                         THEN Done(q, nil, mapEntries(ranked(q.tags, q.entries, <<>>)))
                         ELSE [q EXCEPT !.pc = "CacheRead", !.k = 1,
                                        !.stored = sg.entries]]
    /\ UNCHANGED <<forget, storage, last, calls, mx, tagLookup>>

\* getAll: t.storage.Get(notCached); with nothing to warm up the call returns.
GetStorage(p) ==
    /\ proc[p].pc = "GetStorage"
    /\ LET q == proc[p]
       IN  \E sg \in storageGet(storage, setRequestIndex(q.tags, q.entries).notFound) :
              proc' = [proc EXCEPT ![p] =
                         IF sg.err # nil THEN Done(q, sg.err, <<>>)
                         ELSE IF Len(sg.entries) = 0
                         THEN Done(q, nil, mapEntries(ranked(q.tags, q.entries, <<>>)))
                         ELSE [q EXCEPT !.pc = "CacheRead", !.k = 1,
                                        !.stored = sg.entries]]
    /\ UNCHANGED <<forget, storage, last, calls, mx, tagLookup>>

NextConc ==
    \E p \in Callers :
        \/ Start(p)
        \/ SetStorage(p)
        \/ CacheRead(p)
        \/ CacheWrite(p)
        \/ RemoveStorage(p)
        \/ DeleteCache(p)
        \/ DeleteStorage(p)
        \/ GetCache(p)
        \/ GetStorage(p)

SpecConc == Init /\ [][NextConc]_vars

(***************************************************************************)
(* Concurrent callers that make no Delete call: every cache write is one   *)
(* of cache.Set and cache.Remove.                                          *)
(***************************************************************************)
StartNoDelete(p) ==
    /\ proc[p].pc \in {"idle", "done"}
    /\ calls < MaxCalls
    /\ calls' = calls + 1
    /\ \/ \E value \in Values, tags \in TagLists :
            LET q == [Idle EXCEPT !.op = "Set", !.value = value, !.tags = tags, !.k = 1]
            IN  proc' = [proc EXCEPT ![p] =
                           IF Len(tags) = 0 THEN Done(q, nil, <<>>)
                           ELSE [q EXCEPT !.pc = "SetStorage"]]
       \/ \E value \in Values, tag \in Tags :
            proc' = [proc EXCEPT ![p] =
                       [Idle EXCEPT !.pc = "CacheRead", !.op = "Remove",
                                    !.value = value, !.tags = <<tag>>, !.k = 1]]
       \/ \E tags \in TagLists :
            proc' = [proc EXCEPT ![p] =
                       [Idle EXCEPT !.pc = IF Len(tags) = 0 THEN "GetStorage" ELSE "GetCache",
                                    !.op = "GetAll", !.tags = tags, !.k = 1]]
    /\ UNCHANGED <<forget, storage, last, mx, tagLookup>>

NextNoDelete ==
    \E p \in Callers :
        \/ StartNoDelete(p)
        \/ SetStorage(p)
        \/ CacheRead(p)
        \/ CacheWrite(p)
        \/ RemoveStorage(p)
        \/ GetCache(p)
        \/ GetStorage(p)

SpecNoDelete == Init /\ [][NextNoDelete]_vars

(***************************************************************************)
(* The write-back of withTagEntries step by step: forget.Set replaces the  *)
(* item of the tag by a new one and hands out its writer, writeAll writes  *)
(* one record per WriteEntry, the deferred Close and Unlock end the call.  *)
(* cache.Get takes no lock and reads what the item holds.                  *)
(***************************************************************************)
\* The encoded list a caller between read and write-back is about to write.
Pending(q) ==
    writeAll(IF q.op = "Remove" THEN cacheRemoveOp(q.read, CurEntry(q))
             ELSE cacheSetOp(q.read, CurEntry(q)))

\* w, ok := c.forget.Set(tag, forEver)
CacheOpen(p) ==
    /\ proc[p].pc = "CacheWrite"
    /\ LET q == proc[p]
           tag == CurEntry(q).Tag
       IN  \/ /\ forget' \in {forget, forgetDelete(forget, {tag})}
              /\ proc' = [proc EXCEPT ![p] = Done(q, ErrFailedToCacheEntry, <<>>)]
              /\ mx' = 0
           \/ /\ forget' = forgetSet(forget, tag, <<>>)
              /\ IF Len(Pending(q)) = 0
                 THEN proc' = [proc EXCEPT ![p] = AfterCacheWrite(q)] /\ mx' = 0
                 ELSE proc' = [proc EXCEPT ![p].pc = "CacheStream"] /\ mx' = mx
    /\ UNCHANGED <<storage, last, calls, tagLookup>>

\* writeAll: one kvw.WriteEntry; after the last one the call returns.
CacheWriteEntry(p) ==
    /\ proc[p].pc = "CacheStream"
    /\ LET q == proc[p]
           tag == CurEntry(q).Tag
           n == IF tag \in DOMAIN forget THEN Len(forget[tag]) ELSE 0
       IN  \/ /\ forget' = forget
              /\ proc' = [proc EXCEPT ![p] = Done(q, errWrite, <<>>)]
              /\ mx' = 0
           \/ /\ n < Len(Pending(q))
              /\ forget' = forgetSet(forget, tag, SubSeq(Pending(q), 1, n + 1))
              /\ IF n + 1 = Len(Pending(q))
                 THEN proc' = [proc EXCEPT ![p] = AfterCacheWrite(q)] /\ mx' = 0
                 ELSE proc' = proc /\ mx' = mx
    /\ UNCHANGED <<storage, last, calls, tagLookup>>

NextStream ==
    \E p \in Callers :
        \/ StartNoDelete(p)
        \/ SetStorage(p)
        \/ CacheRead(p)
        \/ CacheOpen(p)
        \/ CacheWriteEntry(p)
        \/ RemoveStorage(p)
        \/ GetCache(p)
        \/ GetStorage(p)

SpecStream == Init /\ [][NextStream]_vars

(***************************************************************************)
(* Reverse lookup: the stash is created over a storage that implements     *)
(* TagLookup or over one that does not.                                    *)
(***************************************************************************)
InitLookup ==
    /\ forget = [x \in {} |-> <<>>]
    /\ storage \in InitStorages
    /\ last = [op |-> "New", value |-> "", tags |-> <<>>, err |-> nil,
               val |-> "", vals |-> <<>>, entries |-> <<>>, failed |-> "", at |-> 0]
    /\ calls = 0
    /\ proc = [p \in Callers |-> Idle]
    /\ mx = 0
    /\ tagLookup \in BOOLEAN

DoGetTags ==
    /\ calls < MaxCalls
    /\ \E value \in Values :
        \E o \in GetTags(forget, storage, tagLookup, value) :
            Return(o, Call("GetTags", value, <<>>, o, "", o.tags, <<>>))

NextLookup == DoSet \/ DoRemove \/ DoDelete \/ DoGet \/ DoGetAll \/ DoGetTags

SpecLookup == InitLookup /\ [][NextLookup]_vars

(***************************************************************************)
(* Damaged cache content: between two calls the bytes cached for a tag may *)
(* be replaced by a list of records that does not decode.                  *)
(***************************************************************************)
DamagedRaws ==
    {<<[Key |-> <<"u1">>, Val |-> "a"]>>,
     <<[Key |-> <<"u1", "u2">>, Val |-> "1"]>>,
     <<[Key |-> <<>>, Val |-> "0"]>>,
     <<[Key |-> <<"u2">>, Val |-> "0"], [Key |-> <<"u1", "u2">>, Val |-> "1"]>>}

\* forget.SetBytes(tag, damaged bytes, forEver)
DoDamage ==
    /\ calls < MaxCalls
    /\ last.op # "SetBytes"
    /\ \E tag \in Tags, raw \in DamagedRaws :
          /\ forget' = forgetSet(forget, tag, raw)
          /\ last' = [op |-> "SetBytes", value |-> "", tags |-> <<tag>>, err |-> nil,
                      val |-> "", vals |-> <<>>, entries |-> <<>>, failed |-> "",
                      at |-> 0]
    /\ UNCHANGED <<storage, calls, proc, mx, tagLookup>>

NextDamaged == DoSet \/ DoRemove \/ DoDelete \/ DoGet \/ DoGetAll \/ DoDamage

SpecDamaged == Init /\ [][NextDamaged]_vars

(***************************************************************************)
(* The record codec alone: readAll applied to any list of keyval entries   *)
(* the blob cache may hand back for a tag.                                 *)
(***************************************************************************)
\* Longest list of records handed to readAll.
MaxRecs == 2

\* The value tokens of one record: none, one or two.
KeyTokens == UNION {[1..n -> Values] : n \in 0..2}

\* The position token of one record: an integer or not.
PosTokens == {"0", "1", "a"}

RawRecords == [Key : KeyTokens, Val : PosTokens]

RawLists == UNION {[1..n -> RawRecords] : n \in 0..MaxRecs}

InitCodec ==
    /\ forget \in {[t \in {"foo"} |-> raw] : raw \in RawLists}
    /\ storage = <<>>
    /\ last = [op |-> "New", value |-> "", tags |-> <<>>, err |-> nil,
               val |-> "", vals |-> <<>>, entries |-> <<>>, failed |-> "", at |-> 0]
    /\ calls = 0
    /\ proc = [p \in Callers |-> Idle]
    /\ mx = 0
    /\ tagLookup = TRUE

DoReadAll ==
    /\ calls = 0
    /\ LET r == readAll(forget["foo"], "foo")
       IN  last' = [last EXCEPT !.op = "readAll", !.tags = <<"foo">>, !.err = r.err,
                                !.entries = r.entries,
                                !.failed = IF r.err # nil THEN "readAll" ELSE ""]
    /\ calls' = calls + 1
    /\ UNCHANGED <<forget, storage, proc, mx, tagLookup>>

\* The positions of the entries handed to writeAll.
Positions == {-1, 0, 1, 2}

\* The lists of entries of one tag with pairwise distinct values.
EntryLists ==
    {l \in UNION {[1..n -> {Entry(v, "foo", i) : v \in Values, i \in Positions}] :
                    n \in 0..MaxRecs} :
        \A i, j \in 1..Len(l) : l[i].Value = l[j].Value => i = j}

\* writeAll into the item of the tag.
DoWriteAll ==
    /\ calls = 0
    /\ last.op = "New"
    /\ \E l \in EntryLists :
          /\ forget' = forgetSet(forget, "foo", writeAll(l))
          /\ last' = [last EXCEPT !.op = "writeAll", !.tags = <<"foo">>,
                                   !.entries = l, !.vals = mapEntries(l)]
    /\ UNCHANGED <<storage, calls, proc, mx, tagLookup>>

NextCodec == DoReadAll \/ DoWriteAll

SpecCodec == InitCodec /\ [][NextCodec]_vars

(***************************************************************************)
(* The sort of getAll alone: sort.Sort applied to any list of deduplicated *)
(* entries, told apart by their values and scored 1 or 2 matching tags.    *)
(***************************************************************************)
\* Longest list handed to the sort.
MaxSort == 7

SortValues == <<"v1", "v2", "v3", "v4", "v5", "v6", "v7", "v8">>

SortInputs ==
    UNION {{[k \in 1..n |-> [Entry(SortValues[k], "foo", 0) EXCEPT
                                !.requestTagMatch = m[k]]] : m \in [1..n -> {1, 2}]} :
             n \in 0..MaxSort}

InitSort ==
    /\ forget = [x \in {} |-> <<>>]
    /\ storage = <<>>
    /\ last \in {[op |-> "New", value |-> "", tags |-> <<>>, err |-> nil,
                   val |-> "", vals |-> <<>>, entries |-> e, failed |-> "", at |-> 0] :
                     e \in SortInputs}
    /\ calls = 0
    /\ proc = [p \in Callers |-> Idle]
    /\ mx = 0
    /\ tagLookup = TRUE

\* sort.Sort(entrySort{entries}); mapEntries(entries)
DoSort ==
    /\ calls = 0
    /\ last' = [last EXCEPT !.op = "sort", !.vals = mapEntries(sortEntries(last.entries))]
    /\ calls' = calls + 1
    /\ UNCHANGED <<forget, storage, proc, mx, tagLookup>>

NextSort == DoSort

SpecSort == InitSort /\ [][NextSort]_vars

(***************************************************************************)
(* Concurrent cache writers: callers of Set and Remove over a cache whose  *)
(* lists may be damaged.  A caller inside a call goes on: the scheduler    *)
(* runs every goroutine that can run, and a goroutine that waits for the   *)
(* lock gets it once it stays free.                                        *)
(***************************************************************************)
\* The writers store and remove one value: the one lock of the cache is taken
\* for every write, whatever the tag and the value.
WriterValues == {"u1"}

StartWriter(p) ==
    /\ proc[p].pc \in {"idle", "done"}
    /\ calls < MaxCalls
    /\ calls' = calls + 1
    /\ \/ \E value \in WriterValues, tags \in TagLists :
            LET q == [Idle EXCEPT !.op = "Set", !.value = value, !.tags = tags, !.k = 1]
            IN  proc' = [proc EXCEPT ![p] =
                           IF Len(tags) = 0 THEN Done(q, nil, <<>>)
                           ELSE [q EXCEPT !.pc = "SetStorage"]]
       \/ \E value \in WriterValues, tag \in Tags :
            proc' = [proc EXCEPT ![p] =
                       [Idle EXCEPT !.pc = "CacheRead", !.op = "Remove",
                                    !.value = value, !.tags = <<tag>>, !.k = 1]]
    /\ UNCHANGED <<forget, storage, last, mx, tagLookup>>

\* The steps of a caller inside a Set or Remove.
WriterStep(p) == SetStorage(p) \/ CacheRead(p) \/ CacheWrite(p) \/ RemoveStorage(p)

\* forget.SetBytes(tag, a record without a value, forEver), once.
DamageTag ==
    /\ calls < MaxCalls
    /\ last.op # "SetBytes"
    /\ \E tag \in Tags :
          /\ forget' = forgetSet(forget, tag, <<[Key |-> <<>>, Val |-> "0"]>>)
          /\ last' = [last EXCEPT !.op = "SetBytes", !.tags = <<tag>>]
    /\ UNCHANGED <<storage, calls, proc, mx, tagLookup>>

InitWriters ==
    /\ forget = [x \in {} |-> <<>>]
    /\ storage = <<>>
    /\ last = [op |-> "New", value |-> "", tags |-> <<>>, err |-> nil,
               val |-> "", vals |-> <<>>, entries |-> <<>>, failed |-> "", at |-> 0]
    /\ calls = 0
    /\ proc = [p \in Callers |-> Idle]
    /\ mx = 0
    /\ tagLookup = TRUE

NextWriters == DamageTag \/ \E p \in Callers : StartWriter(p) \/ WriterStep(p)

SpecWriters ==
    InitWriters /\ [][NextWriters]_vars /\ \A p \in Callers : WF_vars(WriterStep(p))

(***************************************************************************)
(* The empty string as a value: Set stores any string.                     *)
(***************************************************************************)
DoSetEmptyValue ==
    /\ calls < MaxCalls
    /\ \E tags \in TagLists :
        \E o \in Set(forget, storage, "", tags) :
            Return(o, Call("Set", "", tags, o, "", <<>>, <<>>))

NextEmptyValue == Next \/ DoSetEmptyValue

SpecEmptyValue == Init /\ [][NextEmptyValue]_vars

(***************************************************************************)
(* Properties of the completed calls.                                      *)
(***************************************************************************)
Range(f) == {f[k] : k \in DOMAIN f}

Returned(ops) == last.op \in ops /\ last.err = nil

\* The values the storage associates with at least one of the tags.
StoredValues(s, tags) == {s[k].Value : k \in {j \in 1..Len(s) : s[j].Tag \in Range(tags)}}

\* The tags among `tags` that the storage associates with the value.
StoredTags(s, value, tags) ==
    {t \in Range(tags) : \E k \in 1..Len(s) : s[k].Value = value /\ s[k].Tag = t}

C2_MatchCountIsDistinctTags ==
    Returned({"Get", "GetAll"}) =>
        \A k \in 1..Len(last.entries) :
            last.entries[k].requestTagMatch =
                Cardinality(StoredTags(storage, last.entries[k].Value, last.tags))

\* C3: a GetAll that returns without error returns exactly the values the
\* storage associates with at least one of the query tags.
C3_GetAllIsStorageView ==
    Returned({"GetAll"}) => Range(last.vals) = StoredValues(storage, last.tags)

\* C4: the sequence returned by GetAll never contains the same value twice.
C4_GetAllUnique ==
    Returned({"GetAll"}) =>
        \A i, j \in 1..Len(last.vals) : i # j => last.vals[i] # last.vals[j]

\* A GetAll returned several values, one of them matched by two query tags.
C4_Witness ==
    /\ Returned({"GetAll"})
    /\ Len(last.vals) = 2
    /\ \E k \in 1..Len(last.entries) : last.entries[k].requestTagMatch = 2

\* C5: a Get that returns without error returns the first element of what
\* GetAll returns for the same tags on the same state, and the no-match result
\* when GetAll returns nothing.
C5_GetIsFirstOfGetAll ==
    [][(last'.op = "Get" /\ last'.err = nil) =>
         \A a \in GetAll(forget, storage, last'.tags) :
            a.err = nil =>
              last'.val = IF Len(a.vals) = 0 THEN "" ELSE a.vals[1]]_vars

\* A Get found several candidates and returned a value.
C5_Witness ==
    /\ Returned({"Get"})
    /\ Len(last.entries) = 2
    /\ last.val = last.entries[1].Value

\* The rows of one tag, in storage order.
RowsOf(s, tag) == SelectSeq(s, LAMBDA r : r.Tag = tag)

\* The cached records of one tag (none when the tag is not cached).
Cached(c, tag) == IF tag \in DOMAIN c THEN c[tag] ELSE <<>>

\* The values of the successful outcomes of GetAll for one query.
Answers(c, s, tags) == {a.vals : a \in {o \in GetAll(c, s, tags) : o.err = nil}}

\* C7: after Remove(value, tag) returned without error, GetAll([tag]) does not
\* contain the value, while the value is still returned for every other tag it
\* is associated with.
C7_RemoveOnlyThatTag ==
    Returned({"Remove"}) =>
        LET v == last.value
            t == last.tags[1]
        IN  /\ \A vals \in Answers(forget, storage, <<t>>) : v \notin Range(vals)
            /\ \A t2 \in Tags \ {t} :
                 (\E k \in 1..Len(storage) :
                     storage[k].Value = v /\ storage[k].Tag = t2) =>
                   \A vals \in Answers(forget, storage, <<t2>>) : v \in Range(vals)

\* The first half of C7 alone: the removed value is not returned for the tag.
C7_RemovedNotReturned ==
    Returned({"Remove"}) =>
        \A vals \in Answers(forget, storage, <<last.tags[1]>>) :
            last.value \notin Range(vals)

\* C8: after Delete(tag) returned without error, Get([tag]) reports no match,
\* the cached records and the stored rows of every other tag are unchanged, and
\* GetAll of the other tags answers as it did before the Delete.
C8_DeleteOnlyThatTag ==
    [][(last'.op = "Delete" /\ last'.err = nil) =>
         LET t == last'.tags[1]
         IN  /\ \A g \in Get(forget', storage', <<t>>) : g.err = nil => g.val = ""
             /\ \A t2 \in Tags \ {t} :
                  /\ (t2 \in DOMAIN forget') = (t2 \in DOMAIN forget)
                  /\ Cached(forget', t2) = Cached(forget, t2)
                  /\ RowsOf(storage', t2) = RowsOf(storage, t2)
             /\ \A q \in {q \in TagLists : t \notin Range(q)} :
                  Answers(forget', storage', q) = Answers(forget, storage, q)]_vars

\* A Delete returned and the other tag is still cached and stored.
C8_Witness ==
    /\ Returned({"Delete"})
    /\ \E t2 \in Tags \ {last.tags[1]} :
          /\ Len(Cached(forget, t2)) > 0
          /\ Len(RowsOf(storage, t2)) > 0
    /\ Len(RowsOf(storage, last.tags[1])) = 0

\* The position the latest Set(value, tags) gave to the tag.
LastPos(tags, t) == (CHOOSE k \in 1..Len(tags) :
                        tags[k] = t /\ \A j \in (k + 1)..Len(tags) : tags[j] # t) - 1

\* C9: after Set(value, tags) returned without error, every (value, tag) pair
\* of the call has a single row in the storage and at most a single record in
\* the tag's cached list, both carrying the tag's position in this call, and a
\* following GetAll([tag]) returns the value.
C9_SetOverwritesTagIndex ==
    Returned({"Set"}) =>
        \A t \in Range(last.tags) :
            LET rows == SelectSeq(storage, LAMBDA r : r.Tag = t /\ r.Value = last.value)
                recs == SelectSeq(Cached(forget, t), LAMBDA r : r.Key = <<last.value>>)
            IN  /\ Len(rows) = 1
                /\ rows[1].TagIndex = LastPos(last.tags, t)
                /\ Len(recs) <= 1
                /\ \A k \in 1..Len(recs) : recs[k].Val = Itoa(LastPos(last.tags, t))
                /\ \A vals \in Answers(forget, storage, <<t>>) : last.value \in Range(vals)

\* A Set gave new positions to two tags the value already had: the rows keep
\* the order of the earlier call and both tags are cached.
C9_Witness ==
    /\ Returned({"Set"})
    /\ Len(last.tags) = 2 /\ last.tags[1] # last.tags[2]
    /\ \E i, j \in 1..Len(storage) :
          /\ i < j
          /\ storage[i].Value = last.value /\ storage[i].Tag = last.tags[2]
          /\ storage[j].Value = last.value /\ storage[j].Tag = last.tags[1]
    /\ \A t \in Range(last.tags) :
          \E k \in 1..Len(Cached(forget, t)) : Cached(forget, t)[k].Key = <<last.value>>

\* C10: applying Set(v, tags) again right after it returned leaves the storage
\* and the cache as the first call left them, with no two rows or records of
\* one (v, tag); the blob cache evicts none of the records meanwhile.
C10_SetIdempotent ==
    [][(last'.op = "Set" /\ last'.err = nil
          /\ \A t \in Range(last'.tags) : t \in DOMAIN forget') =>
         \A o \in Set(forget', storage', last'.value, last'.tags) :
            (o.err = nil /\ o.evicted = {}) =>
               /\ o.storage = storage'
               /\ o.forget = forget'
               /\ \A i, j \in 1..Len(o.storage) :
                    (o.storage[i].Value = o.storage[j].Value
                       /\ o.storage[i].Tag = o.storage[j].Tag) => i = j
               /\ \A t \in DOMAIN o.forget :
                    \A i, j \in 1..Len(o.forget[t]) :
                       o.forget[t][i].Key = o.forget[t][j].Key => i = j]_vars

\* A Set of two tags returned with both tags cached next to another value.
C10_Witness ==
    /\ Returned({"Set"})
    /\ Len(last.tags) = 2 /\ last.tags[1] # last.tags[2]
    /\ \A t \in Range(last.tags) : t \in DOMAIN forget
    /\ \E t \in Range(last.tags) : Len(forget[t]) = 2
    /\ Len(storage) > 2

\* C6: every (value, tag) record held in the tag cache is also held by the
\* storage.
C6_CacheWithinStorage ==
    \A t \in DOMAIN forget :
        \A k \in 1..Len(forget[t]) :
            \E j \in 1..Len(storage) :
                storage[j].Tag = t /\ <<storage[j].Value>> = forget[t][k].Key

\* C11: starting from an empty cache, whatever cache.Set, cache.Remove and
\* cache.Delete calls are made, no tag's cached record list holds two records
\* with the same value.
C11_NoDuplicateValues ==
    \A t \in DOMAIN forget :
        \A i, j \in 1..Len(forget[t]) :
            forget[t][i].Key = forget[t][j].Key => i = j

\* cache.Set found the value in a list of two and gave it a new position in
\* place: u1 stays ahead of u2 in the list of foo and carries position 1.
C11_Witness ==
    /\ Returned({"Set"})
    /\ last.value = "u1" /\ last.tags = <<"bar", "foo">>
    /\ "foo" \in DOMAIN forget
    /\ forget["foo"] = <<[Key |-> <<"u1">>, Val |-> "1"], [Key |-> <<"u2">>, Val |-> "1"]>>

\* The record cache.Set writes for a value at a position.
Rec(v, i) == [Key |-> <<v>>, Val |-> Itoa(i)]

\* C12: when the storage fails while Set(value, tags) writes the tag at
\* position i, Set returns that error; the rows and the cached records of the
\* tags that come first at position i or later are as they were before the call
\* (a cached list may only have been evicted), and every tag before position i
\* has its row, and its record in the list that is still cached, carrying the
\* position the tag has among the tags before i.
C12_SetAbortsOnStorageFailure ==
    [][(last'.op = "Set" /\ last'.failed = "storage.Set") =>
         LET v == last'.value
             i == last'.at
             done == SubSeq(last'.tags, 1, i - 1)
         IN  /\ last'.err = errForgedError
             /\ \A t \in Range(done) :
                  /\ \E k \in 1..Len(storage') :
                        storage'[k] = Row(Entry(v, t, LastPos(done, t)))
                  /\ \A k \in 1..Len(storage') :
                        (storage'[k].Value = v /\ storage'[k].Tag = t) =>
                           storage'[k].TagIndex = LastPos(done, t)
                  /\ t \in DOMAIN forget' =>
                        /\ \E k \in 1..Len(forget'[t]) :
                              forget'[t][k] = Rec(v, LastPos(done, t))
                        /\ \A k \in 1..Len(forget'[t]) :
                              forget'[t][k].Key = <<v>> =>
                                 forget'[t][k] = Rec(v, LastPos(done, t))
             /\ \A t \in Tags \ Range(done) :
                  /\ RowsOf(storage', t) = RowsOf(storage, t)
                  /\ t \in DOMAIN forget' =>
                        (t \in DOMAIN forget /\ forget'[t] = forget[t])]_vars

\* The storage failed on the second of two distinct tags: the first tag has its
\* row and its cached record, the second has neither.
C12_Witness ==
    /\ last.op = "Set" /\ last.failed = "storage.Set" /\ last.at = 2
    /\ last.tags[1] # last.tags[2]
    /\ \E k \in 1..Len(storage) : storage[k] = Row(Entry(last.value, last.tags[1], 0))
    /\ last.tags[1] \in DOMAIN forget
    /\ \E k \in 1..Len(forget[last.tags[1]]) : forget[last.tags[1]][k] = Rec(last.value, 0)
    /\ \A k \in 1..Len(storage) :
          ~(storage[k].Value = last.value /\ storage[k].Tag = last.tags[2])
    /\ last.tags[2] \notin DOMAIN forget

\* C13: when the blob cache does not take the record list of the tag at
\* position i during Set(value, tags), Set returns ErrFailedToCacheEntry, the
\* cache holds no record of (value, tag) although the storage has the row, and
\* the tags that come first after position i have their rows and cached lists
\* as before the call (a cached list may only have been evicted).
C13_RefusedSetFailsToCache ==
    [][(last'.op = "Set" /\ last'.failed = "cache.Set"
          /\ last'.err \notin {ErrDamagedCacheData, ErrSyntax}) =>
         LET v == last'.value
             i == last'.at
             t == last'.tags[i]
             done == SubSeq(last'.tags, 1, i)
         IN  /\ last'.err = ErrFailedToCacheEntry
             /\ \E k \in 1..Len(storage') : storage'[k] = Row(Entry(v, t, i - 1))
             /\ \A k \in 1..Len(Cached(forget', t)) : forget'[t][k].Key # <<v>>
             /\ \A t2 \in Tags \ Range(done) :
                  /\ RowsOf(storage', t2) = RowsOf(storage, t2)
                  /\ t2 \in DOMAIN forget' =>
                        (t2 \in DOMAIN forget /\ forget'[t2] = forget[t2])]_vars

\* A record readAll must reject: not exactly one value token, or a position
\* token that is not an integer.
Malformed(r) == Len(r.Key) # 1 \/ r.Val \notin Range(Digits)

Undecodable(raw) == \E k \in 1..Len(raw) : Malformed(raw[k])

\* C14: readAll of a list with a malformed record, alone or after well-formed
\* records, fails with ErrDamagedCacheData and returns no entries.
C14_MalformedIsDamagedData ==
    (last.op = "readAll" /\ Undecodable(forget["foo"])) =>
        (last.err = ErrDamagedCacheData /\ last.entries = <<>>)

\* The errors readAll returns for a list that does not decode.
DecodeErrors == {ErrDamagedCacheData, ErrSyntax}

\* The queried tags whose cached list is present and does not decode.
DamagedTags(c, tags) == {t \in Range(tags) : t \in DOMAIN c /\ Undecodable(c[t])}

\* C15: cache.Get fails exactly when the cached list of a queried tag is
\* present and does not decode (never for a tag that is not cached), and then
\* returns no entries whatever the other tags hold; Get and GetAll return that
\* error with no value and leave cache and storage as they are.
C15_GetFailsOnlyOnDamage ==
    [][last'.op \in {"Get", "GetAll"} =>
         LET r == cacheGet(forget, last'.tags)
             damaged == DamagedTags(forget, last'.tags)
         IN  /\ (r.err # nil) = (damaged # {})
             /\ r.err # nil => (r.err \in DecodeErrors /\ r.entries = <<>>)
             /\ (last'.failed = "cache.Get") = (damaged # {})
             /\ damaged # {} =>
                   /\ last'.err = r.err
                   /\ last'.val = "" /\ last'.vals = <<>> /\ last'.entries = <<>>
                   /\ forget' = forget /\ storage' = storage]_vars

\* A Get or GetAll of two tags failed in cache.Get: the list of one tag does
\* not decode, the list of the other does and holds a record.
C15_Witness ==
    /\ last.op \in {"Get", "GetAll"} /\ last.failed = "cache.Get"
    /\ Len(last.tags) = 2
    /\ \E t1, t2 \in Range(last.tags) :
          /\ t1 \in DOMAIN forget /\ Undecodable(forget[t1])
          /\ t2 \in DOMAIN forget /\ ~Undecodable(forget[t2]) /\ Len(forget[t2]) > 0

\* C16: cache.Set and cache.Remove on a tag whose cached list is present and
\* does not decode return the decoding error and leave the cache as it is; a
\* Set or Remove call that fails so leaves the damaged list of the tag cached,
\* every damaged list cached after the call is the one cached before it, and
\* when the first tag of the call is the damaged one the call fails with the
\* cache unchanged.
C16_DamagedListNotOverwritten ==
    [][last'.op \in {"Set", "Remove"} =>
         /\ \A t \in DOMAIN forget :
               Undecodable(forget[t]) =>
                  \A o \in cacheSet(forget, Entry(last'.value, t, 0))
                             \cup cacheRemove(forget, Entry(last'.value, t, 0)) :
                     o.err \in DecodeErrors /\ o.forget = forget
         /\ \A t \in DOMAIN forget' :
               Undecodable(forget'[t]) => (t \in DOMAIN forget /\ forget'[t] = forget[t])
         /\ (last'.failed \in {"cache.Set", "cache.Remove"}
               /\ last'.err \in DecodeErrors) =>
                  /\ last'.tags[last'.at] \in DOMAIN forget'
                  /\ Undecodable(forget'[last'.tags[last'.at]])
         /\ (Len(last'.tags) > 0 /\ DamagedTags(forget, <<last'.tags[1]>>) # {}) =>
               /\ last'.err # nil
               /\ forget' = forget
               /\ last'.failed \in {"cache.Set", "cache.Remove"} =>
                     (last'.at = 1 /\ last'.err \in DecodeErrors)
               /\ last'.op = "Remove" =>
                     (last'.failed = "cache.Remove" /\ storage' = storage)]_vars

\* A Set wrote the row of a tag and failed in cache.Set on the damaged list of
\* the tag, which is still cached.
C16_Witness ==
    /\ last.op = "Set" /\ last.failed = "cache.Set" /\ last.err \in DecodeErrors
    /\ last.tags[last.at] \in DOMAIN forget
    /\ forget[last.tags[last.at]] \in DamagedRaws
    /\ \E k \in 1..Len(storage) :
          storage[k] = Row(Entry(last.value, last.tags[last.at], last.at - 1))

\* C17: when the cache read, the storage read or a warm-up cache write of a
\* Get or GetAll fails, the call returns the error and no value; it returns an
\* error only then.
C17_FailedLookupReturnsNothing ==
    [][last'.op \in {"Get", "GetAll"} =>
         /\ last'.failed \in {"", "cache.Get", "storage.Get", "cache.Set"}
         /\ (last'.failed # "") = (last'.err # nil)
         /\ last'.failed # "" =>
               (last'.val = "" /\ last'.vals = <<>> /\ last'.entries = <<>>)
         /\ last'.failed = "cache.Get" => last'.err \in DecodeErrors
         /\ last'.failed = "storage.Get" => last'.err = errForgedError
         /\ last'.failed = "cache.Set" =>
               last'.err \in {ErrFailedToCacheEntry, errWrite} \cup DecodeErrors]_vars

\* A GetAll fetched the rows of its tag from the storage and failed on the
\* warm-up write: it returned no value.
C17_Witness ==
    /\ last.op = "GetAll" /\ last.failed = "cache.Set"
    /\ Len(last.tags) = 1
    /\ Len(RowsOf(storage, last.tags[1])) = 2
    /\ last.vals = <<>>

\* The tags of the rows of a value, in storage order.
TagsOf(s, value) ==
    [k \in 1..Len(SelectSeq(s, LAMBDA r : r.Value = value)) |->
        SelectSeq(s, LAMBDA r : r.Value = value)[k].Tag]

\* C18: GetTags(value) returns ErrNotSupported exactly when the storage does
\* not implement TagLookup; otherwise it returns what the storage answers, the
\* tags of the rows of the value or the storage's error; the answer does not
\* depend on the cache and neither the cache nor the rows change.
C18_GetTagsOnlyWithLookup ==
    [][last'.op = "GetTags" =>
         /\ (last'.err = ErrNotSupported) = ~tagLookup
         /\ tagLookup =>
               \/ last'.err = nil /\ last'.vals = TagsOf(storage, last'.value)
               \/ last'.err = errForgedError /\ last'.vals = <<>>
         /\ ~tagLookup => last'.vals = <<>>
         /\ forget' = forget /\ storage' = storage]_vars

\* GetTags was not supported although the storage holds rows of the value and
\* the cache holds a record of it.
C18_Witness ==
    /\ last.op = "GetTags" /\ last.err = ErrNotSupported
    /\ Len(TagsOf(storage, last.value)) = 2
    /\ \E t \in DOMAIN forget : \E k \in 1..Len(forget[t]) : forget[t][k].Key = <<last.value>>

\* C19: the cache calls exclude each other: no cache.Delete takes effect
\* while a caller is between the read and the write-back of a cache.Set or
\* cache.Remove.
C19_DeleteExcluded ==
    [][\A p \in Callers :
          (proc[p].pc = "DeleteCache" /\ proc'[p].pc # "DeleteCache") => mx = 0]_vars

\* Two callers have each completed one Set of a single tag, the same tag and
\* different values, without error.
TwoSetsOfOneTag ==
    /\ calls = 2
    /\ \A p \in Callers :
          /\ proc[p].pc = "done" /\ proc[p].op = "Set" /\ proc[p].err = nil
          /\ Len(proc[p].tags) = 1
    /\ proc[1].tags = proc[2].tags
    /\ proc[1].value # proc[2].value

\* C20: with callers that make cache.Set and cache.Remove calls only, at most
\* one caller is between the read and the write-back, and the list a caller
\* writes back is op applied to the list the cache holds for the tag at that
\* moment, so the writes take effect one after the other with no update lost;
\* two Sets of different values on one tag leave both values in its list.
C20_NoLostUpdate ==
    [][/\ \A p \in Callers :
            /\ proc[p].pc = "CacheWrite" => mx = p
            /\ (proc[p].pc = "CacheWrite" /\ proc'[p] # proc[p]) =>
                  /\ withTagEntriesRead(forget, CurEntry(proc[p]).Tag).err = nil
                  /\ proc[p].read =
                        withTagEntriesRead(forget, CurEntry(proc[p]).Tag).entries
       /\ TwoSetsOfOneTag' =>
            /\ proc'[1].tags[1] \in DOMAIN forget'
            /\ {forget'[proc'[1].tags[1]][k].Key :
                   k \in 1..Len(forget'[proc'[1].tags[1]])} = {<<v>> : v \in Values}]_vars

\* Both Sets are done and the list of the tag holds the two values, the value
\* of the first caller last: it waited for the other caller's write.
C20_Witness ==
    /\ TwoSetsOfOneTag
    /\ Len(forget[proc[1].tags[1]]) = 2
    /\ forget[proc[1].tags[1]][2].Key = <<proc[1].value>>

\* C21: a cache.Get that reads a tag while a cache.Set or cache.Remove writes
\* the tag's list back reads the whole list from before the write or the whole
\* list after it.
C21_GetReadsWholeList ==
    [][\A r, w \in Callers :
          (/\ proc[r].pc = "GetCache" /\ proc'[r] # proc[r]
           /\ proc[w].pc = "CacheStream"
           /\ CurEntry(proc[w]).Tag = proc[r].tags[proc[r].k]) =>
             Cached(forget, CurEntry(proc[w]).Tag)
                \in {writeAll(proc[w].read), Pending(proc[w])}]_vars

\* The place of a value in a list of values.
IndexOf(vals, v) == CHOOSE k \in 1..Len(vals) : vals[k] = v

\* C22: the sort of getAll is stable: two entries with equal matchCount and
\* equal accumulated indexDelta come out in the order they went in.
C22_SortIsStable ==
    last.op = "sort" =>
        \A i, j \in 1..Len(last.entries) :
            (/\ i < j
             /\ last.entries[i].requestTagMatch = last.entries[j].requestTagMatch
             /\ last.entries[i].requestIndexDelta = last.entries[j].requestIndexDelta) =>
                IndexOf(last.vals, last.entries[i].Value)
                    < IndexOf(last.vals, last.entries[j].Value)

\* C23: reading back what writeAll wrote for a list of entries of one tag with
\* pairwise distinct values, the empty list included, gives no error and
\* entries of the same values, tag and positions, in the same order.
C23_CodecRoundTrip ==
    [][(last.op = "writeAll" /\ last'.op = "readAll") =>
          /\ last'.err = nil
          /\ Len(last'.entries) = Len(last.entries)
          /\ \A k \in 1..Len(last.entries) :
                Row(last'.entries[k]) = Row(last.entries[k])]_vars

C23_Witness ==
    /\ last.op = "readAll"
    /\ Len(last.vals) = 2
    /\ Len(last.entries) = 2
    /\ last.entries[1].TagIndex = -1
    /\ last.entries[2].TagIndex = 2

\* Neither the storage nor the cache associates the value with the tag.
NotAssociated(c, s, value, tag) ==
    /\ \A k \in 1..Len(s) : ~(s[k].Value = value /\ s[k].Tag = tag)
    /\ \A k \in 1..Len(Cached(c, tag)) : Cached(c, tag)[k].Key # <<value>>

\* C24: Remove(value, tag) of a value that is not associated with the tag, the
\* tag cached or not, can return without error and leaves the rows of the
\* storage as they are; when it returns without error the cached records of
\* the tag are unchanged and those of every other tag are unchanged or evicted;
\* an error it returns is that of the write to the Blob Cache or of the storage.
C24_RemoveAbsentIsNoOp ==
    [][(/\ last'.op = "Remove"
        /\ calls' = calls + 1
        /\ NotAssociated(forget, storage, last'.value, last'.tags[1])) =>
          /\ storage' = storage
          /\ \E o \in Remove(forget, storage, last'.value, last'.tags[1]) : o.err = nil
          /\ last'.err = nil =>
                /\ Cached(forget', last'.tags[1]) = Cached(forget, last'.tags[1])
                /\ \A t2 \in Tags \ {last'.tags[1]} :
                      Cached(forget', t2) \in {Cached(forget, t2), <<>>}
          /\ last'.err \in {nil, ErrFailedToCacheEntry, errWrite, errForgedError}]_vars

\* A Remove of a value the tag never had returned, the tag still cached and
\* stored with its other value and every row in its place.
C24_Witness ==
    /\ Returned({"Remove"})
    /\ last.value = "u2"
    /\ last.tags = <<"foo">>
    /\ Cached(forget, "foo") = <<Rec("u1", 0)>>
    /\ storage = <<Row(Entry("u1", "foo", 0)), Row(Entry("u1", "bar", 1)),
                   Row(Entry("u2", "bar", 0))>>

\* C25: full coverage per tag: when at least one record is cached for a tag,
\* every row the storage holds for the tag is cached, value and position.
C25_FullCoverage ==
    \A t \in Tags :
        Len(Cached(forget, t)) > 0 =>
            \A k \in 1..Len(storage) :
                storage[k].Tag = t =>
                    Rec(storage[k].Value, storage[k].TagIndex) \in Range(Cached(forget, t))

\* The ways to give every tag of a query one of the positions it has in it.
PosChoices(tags) ==
    {f \in [Range(tags) -> 0..(Len(tags) - 1)] : \A t \in Range(tags) : tags[f[t] + 1] = t}

\* The entries a lookup has for a tag: the cached ones when there are any, the
\* rows of the storage otherwise.
EntriesOf(c, s, tag) ==
    IF Len(Cached(c, tag)) > 0
    THEN readAll(Cached(c, tag), tag).entries
    ELSE [k \in 1..Len(RowsOf(s, tag)) |->
            Entry(RowsOf(s, tag)[k].Value, tag, RowsOf(s, tag)[k].TagIndex)]

\* The query tags that have an entry of the value.
TagsWith(c, s, tags, value) ==
    {t \in Range(tags) : \E k \in 1..Len(EntriesOf(c, s, t)) :
                            EntriesOf(c, s, t)[k].Value = value}

\* The position held for the value under the tag.
IndexHeld(c, s, value, tag) ==
    LET e == EntriesOf(c, s, tag)
    IN  e[CHOOSE k \in 1..Len(e) : e[k].Value = value].TagIndex

RECURSIVE SumDelta(_, _, _, _, _)
SumDelta(c, s, value, ts, f) ==
    IF ts = {} THEN 0
    ELSE LET t == CHOOSE t \in ts : TRUE
         IN  Abs(f[t] - IndexHeld(c, s, value, t)) + SumDelta(c, s, value, ts \ {t}, f)

\* C26: the accumulated indexDelta of a returned value is the sum, over the
\* query tags that have an entry of the value, of the absolute difference of
\* the tag's position in the query and the position held for the pair, the
\* entries read from the cache and those fetched from the storage alike.
C26_IndexDeltaIsSum ==
    [][(last'.op \in {"Get", "GetAll"} /\ last'.err = nil) =>
          \A k \in 1..Len(last'.entries) :
              \E f \in PosChoices(last'.tags) :
                  last'.entries[k].requestIndexDelta =
                      SumDelta(forget, storage, last'.entries[k].Value,
                               TagsWith(forget, storage, last'.tags,
                                        last'.entries[k].Value), f)]_vars

\* The query tags the cache returns an entry for.
FoundTags(c, tags) ==
    {t \in Range(tags) : Len(Cached(c, t)) > 0 /\ readAll(Cached(c, t), t).err = nil}

\* What a caller of GetAll can see of its outcomes, and the cache they leave.
Observed(c, s, tags) ==
    {[vals |-> o.vals, err |-> o.err, forget |-> o.forget] : o \in GetAll(c, s, tags)}

RecsOf(s, tag) ==
    [k \in 1..Len(RowsOf(s, tag)) |->
        Rec(RowsOf(s, tag)[k].Value, RowsOf(s, tag)[k].TagIndex)]

\* C28: after a GetAll that returns without error, the blob cache evicting
\* nothing meanwhile, every query tag that was not found in the cache is cached
\* with exactly the records of the rows the storage holds for it; the same
\* query right after returns the same values in the same order, and with every query tag stored
\* it cannot fail and leaves the cache as it is.
C28_WarmUpOnMiss ==
    \A tags \in TagLists :
        \A o \in GetAll(forget, storage, tags) :
            (o.err = nil /\ o.evicted = {}) =>
                /\ \A t \in Range(tags) \ FoundTags(forget, tags) :
                      Cached(o.forget, t) = RecsOf(storage, t)
                /\ \A o2 \in GetAll(o.forget, storage, tags) :
                      /\ o2.err = nil => o2.vals = o.vals
                      /\ (\A t \in Range(tags) : Len(RowsOf(storage, t)) > 0) =>
                            o2.err = nil /\ o2.forget = o.forget

\* The outcomes of the cache step of a Remove or Delete call.
CacheStep(c, op, value, tag) ==
    IF op = "Remove" THEN cacheRemove(c, Entry(value, tag, 0)) ELSE cacheDelete(c, tag)

\* C29: Remove and Delete act on the cache first and the storage second, and
\* the first error wins: when the cache step fails the call returns its error
\* and the rows of the storage are unchanged; when the cache step succeeded and
\* the storage fails the call returns the storage's error, the cache changed
\* and the rows not; the rows change only when the call returns without error.
C29_CacheFirstThenStorage ==
    [][(last'.op \in {"Remove", "Delete"} /\ calls' = calls + 1) =>
          LET steps == CacheStep(forget, last'.op, last'.value, last'.tags[1])
          IN  /\ last'.failed \in {"cache.Remove", "cache.Delete"} =>
                    /\ last'.err # nil
                    /\ \E co \in steps : co.err = last'.err /\ co.forget = forget'
                    /\ storage' = storage
              /\ last'.failed \in {"storage.Remove", "storage.Delete"} =>
                    /\ last'.err = errForgedError
                    /\ \E co \in steps : co.err = nil /\ co.forget = forget'
                    /\ storage' = storage
              /\ last'.err # nil =>
                    last'.failed \in {"cache.Remove", "cache.Delete",
                                       "storage.Remove", "storage.Delete"}
              /\ last'.err = nil =>
                    /\ last'.failed = ""
                    /\ \E co \in steps : co.err = nil /\ co.forget = forget'
              /\ storage' # storage => last'.err = nil]_vars

\* A Remove failed in the storage after the cache dropped the value: the row
\* is stored and its record is not cached next to the other value's.
C29_Witness ==
    /\ last.op = "Remove"
    /\ last.err = errForgedError
    /\ \E k \in 1..Len(storage) :
          storage[k].Value = last.value /\ storage[k].Tag = last.tags[1]
    /\ Len(Cached(forget, last.tags[1])) = 1
    /\ Cached(forget, last.tags[1])[1].Key # <<last.value>>

\* The tags cached with an empty list.
EmptyTags(c) == {t \in DOMAIN c : c[t] = <<>>}

\* What a caller of GetAll can see of its outcomes and the cached records they
\* leave, a tag that is not cached taken for one cached with no record.
ObservedRecords(c, s, tags) ==
    {[vals |-> o.vals, err |-> o.err, failed |-> o.failed,
      records |-> [t \in Tags |-> Cached(o.forget, t)]] : o \in GetAll(c, s, tags)}

\* C30: a query tag cached with an empty list is not found: a lookup has the
\* outcomes, values, errors and cached records alike, it has when the tag is
\* not cached at all, and returns the values the storage holds for the tag.
C30_EmptyListIsNotFound ==
    \A tags \in TagLists :
        /\ ObservedRecords(forget, storage, tags) =
              ObservedRecords(forgetDelete(forget, EmptyTags(forget)), storage, tags)
        /\ \A o \in GetAll(forget, storage, tags) :
              \A t \in Range(tags) \cap EmptyTags(forget) :
                  o.err = nil =>
                      {RowsOf(storage, t)[k].Value : k \in 1..Len(RowsOf(storage, t))}
                          \subseteq Range(o.vals)

\* A Remove left a tag cached with an empty list while the storage holds two
\* rows of the tag, and a GetAll of the tag returns their values.
C30_Witness ==
    /\ last.op = "Remove"
    /\ last.tags[1] \in EmptyTags(forget)
    /\ Len(RowsOf(storage, last.tags[1])) = 2
    /\ \E o \in GetAll(forget, storage, last.tags) : o.err = nil /\ Len(o.vals) = 2

\* C31: the result of a Get that matched a value differs from the result Get
\* returns when nothing matches (the empty string and no error), whatever the
\* value, the empty string included.
C31_NoMatchIsExplicit ==
    (last.op = "Get" /\ last.err = nil /\ Len(last.entries) > 0) => last.val # ""

\* The tags of the list are pairwise distinct.
Distinct(tags) == \A i, j \in 1..Len(tags) : tags[i] = tags[j] => i = j

\* Two of the entries are of the same value and tag: uniqueValues counts the
\* value twice for that tag.
CountedTwice(e) ==
    \E i, j \in 1..Len(e) : i # j /\ e[i].Value = e[j].Value /\ e[i].Tag = e[j].Tag

RECURSIVE RaceCacheGet(_, _, _, _, _, _)
RaceCacheGet(c, tags, t, i, k, entries) ==
    IF k > Len(tags)
    THEN entries
    ELSE RaceCacheGet(c, tags, t, i, k + 1,
                      cacheGetTag(IF k > i THEN forgetDelete(c, {t}) ELSE c,
                                  tags[k], entries).entries)

\* The entries a getAll of the tags can merge when a Delete of t runs next to
\* it: cache.Delete before the read of tag i + 1 (after all reads when
\* i = Len(tags)), storage.Delete before or after storage.Get.
RaceEntries(c, s, tags, t) ==
    UNION {UNION {{setRequestIndex(tags, RaceCacheGet(c, tags, t, i, 1, <<>>)).entries
                     \o sg.entries :
                       sg \in {g \in storageGet(
                                   IF before THEN SelectSeq(s, LAMBDA r : r.Tag # t) ELSE s,
                                   setRequestIndex(tags,
                                       RaceCacheGet(c, tags, t, i, 1, <<>>)).notFound) :
                                 g.err = nil}} :
                    before \in BOOLEAN} :
             i \in 0..Len(tags)}

C33_LockReleasedOnEveryReturn ==
    /\ [](\A p \in Callers : mx = p => proc[p].pc = "CacheWrite")
    /\ \A p \in Callers : (proc[p].pc \notin {"idle", "done"}) ~> (proc[p].pc = "done")

\* A caller holds the lock after the other returned from a cache write with
\* a decode error or a refusal of the blob cache.
C33_Witness ==
    \E p, w \in Callers :
        /\ proc[p].pc = "done"
        /\ proc[p].err \in {ErrDamagedCacheData, ErrFailedToCacheEntry}
        /\ proc[w].pc = "CacheWrite"
        /\ mx = w
        /\ CurEntry(proc[w]).Tag = proc[p].tags[Len(proc[p].tags)]

\* Two callers have each completed one Set of the same value without error,
\* neither naming a tag twice, and tag t got a different position from each
\* of them.
TwoSetsOfOnePair(t) ==
    /\ calls = 2
    /\ \A p \in Callers :
          /\ proc[p].pc = "done" /\ proc[p].op = "Set" /\ proc[p].err = nil
          /\ Distinct(proc[p].tags)
          /\ t \in Range(proc[p].tags)
    /\ proc[1].value = proc[2].value
    /\ LastPos(proc[1].tags, t) # LastPos(proc[2].tags, t)

\* C34: after two concurrent Sets that give different positions to the same
\* (value, tag) pair have both returned without error, the position cached for
\* the pair is the position the storage holds for it.
C34_ConcurrentSetsAgree ==
    \A t \in Tags :
        TwoSetsOfOnePair(t) =>
            \A k \in 1..Len(Cached(forget, t)) :
                forget[t][k].Key = <<proc[1].value>> =>
                    \E j \in 1..Len(storage) :
                        /\ storage[j].Tag = t
                        /\ storage[j].Value = proc[1].value
                        /\ Itoa(storage[j].TagIndex) = forget[t][k].Val

\* C35: Get and GetAll never modify the storage: whatever the cache holds,
\* damaged lists included, and whatever the query, every outcome of the call,
\* a success or any of its failures, leaves the rows of the storage as they
\* were.
C35_LookupLeavesStorage ==
    \A tags \in TagLists :
        /\ \A o \in Get(forget, storage, tags) : o.storage = storage
        /\ \A o \in GetAll(forget, storage, tags) : o.storage = storage

\* A lookup failed in its warm-up, after it had fetched rows from the storage,
\* and the storage holds its rows.
C35_Witness ==
    /\ last.op \in {"Get", "GetAll"}
    /\ last.err # nil
    /\ last.failed = "cache.Set"
    /\ \E t \in Range(last.tags) : Len(RowsOf(storage, t)) > 0

\* C36: a Get or GetAll that returns an error leaves the cached list of every
\* tag as it was before the call, a failed warm-up included.
C36_FailedLookupLeavesCache ==
    \A tags \in TagLists :
        /\ \A o \in Get(forget, storage, tags) :
              o.err # nil => \A t \in Tags : Cached(o.forget, t) = Cached(forget, t)
        /\ \A o \in GetAll(forget, storage, tags) :
              o.err # nil => \A t \in Tags : Cached(o.forget, t) = Cached(forget, t)

====
